---------------------------- MODULE Spec2Model ----------------------------
(***************************************************************************)
(* A model of HARK's portfolio-choice consumer                             *)
(* (HARK/ConsumptionSaving/ConsPortfolioModel.py): the PortfolioSolution   *)
(* record, PortfolioConsumerType.update_solution_terminal / sim_birth /    *)
(* get_controls, and the one-period solver solve_one_period_ConsPortfolio. *)
(*                                                                         *)
(* Numbers.  The program computes in numpy float64.  The model computes in *)
(* fixed point: the integer x stands for the real x / Scale, every product *)
(* and quotient is rounded to the nearest representable value, and the     *)
(* three non-finite floats are kept as distinguished values (NaN, PosInf,  *)
(* NegInf) with IEEE-754's rules for arithmetic and comparison.            *)
(***************************************************************************)
EXTENDS Integers, Sequences, FiniteSets, TLC

(***************************************************************************)
(* Fixed-point arithmetic with non-finite values                           *)
(***************************************************************************)
Scale == 1000
NaN == 1000000000
PosInf == 1000000001
NegInf == -1000000001

One == Scale

IsFinite(x) == x # NaN /\ x # PosInf /\ x # NegInf

Sgn(x) == IF x > 0 THEN 1 ELSE IF x < 0 THEN -1 ELSE 0

\* n / d rounded to the nearest integer (d > 0)
RoundDiv(n, d) == (n + (d \div 2)) \div d

FNeg(x) == IF x = NaN THEN NaN ELSE -x

FAdd(x, y) ==
    IF x = NaN \/ y = NaN THEN NaN
    ELSE IF x = PosInf THEN (IF y = NegInf THEN NaN ELSE PosInf)
    ELSE IF x = NegInf THEN (IF y = PosInf THEN NaN ELSE NegInf)
    ELSE IF ~IsFinite(y) THEN y
    ELSE x + y

FSub(x, y) == FAdd(x, FNeg(y))

FMul(x, y) ==
    IF x = NaN \/ y = NaN THEN NaN
    ELSE IF ~IsFinite(x) \/ ~IsFinite(y)
         THEN (IF Sgn(x) * Sgn(y) = 0 THEN NaN
               ELSE IF Sgn(x) * Sgn(y) > 0 THEN PosInf ELSE NegInf)
    ELSE RoundDiv(x * y, Scale)

FDiv(x, y) ==
    IF x = NaN \/ y = NaN THEN NaN
    ELSE IF ~IsFinite(x) /\ ~IsFinite(y) THEN NaN
    ELSE IF ~IsFinite(y) THEN 0
    ELSE IF ~IsFinite(x) THEN (IF y >= 0 THEN x ELSE FNeg(x))
    ELSE IF y = 0 THEN (IF x = 0 THEN NaN ELSE IF x > 0 THEN PosInf ELSE NegInf)
    ELSE IF y > 0 THEN RoundDiv(x * Scale, y)
    ELSE RoundDiv((-x) * Scale, -y)

\* comparisons: every comparison with NaN is false
FLt(x, y) == x # NaN /\ y # NaN /\ x < y
FLe(x, y) == x # NaN /\ y # NaN /\ x <= y
FGt(x, y) == FLt(y, x)
FGe(x, y) == FLe(y, x)
FEq(x, y) == x # NaN /\ y # NaN /\ x = y
FNe(x, y) == ~FEq(x, y)

RECURSIVE SqrtIter(_, _)
SqrtIter(n, g) ==
    LET g2 == (g + (n \div g)) \div 2
    IN  IF g2 >= g THEN g ELSE SqrtIter(n, g2)

\* floor of the square root of the natural number n
ISqrt(n) == IF n = 0 THEN 0 ELSE SqrtIter(n, IF n > 46340 THEN 46340 ELSE n)

\* x ** 0.5
FSqrt(x) ==
    IF x = NaN \/ x = NegInf THEN NaN
    ELSE IF x = PosInf THEN PosInf
    ELSE IF x < 0 THEN NaN
    ELSE ISqrt(x * Scale)

\* x ** n for an integer exponent n in -2 .. 2
FPowInt(x, n) ==
    CASE n = 0 -> One
      [] n = 1 -> x
      [] n = 2 -> FMul(x, x)
      [] n = -1 -> FDiv(One, x)
      [] n = -2 -> FDiv(One, FMul(x, x))

\* x ** (1 / n) for n in {1, 2}, and x ** (-1 / n)
FRoot(x, n) == IF n = 1 THEN x ELSE FSqrt(x)
FInvRoot(x, n) == FDiv(One, FRoot(x, n))

RECURSIVE FSumTo(_, _)
FSumTo(s, k) == IF k = 0 THEN 0 ELSE FAdd(FSumTo(s, k - 1), s[k])
\* np.sum / np.dot over a sequence
FSum(s) == FSumTo(s, Len(s))

\* an array holding the values of the sequence s (the same sequence, its
\* entries computed once)
np_array(s) == s \o <<>>

(***************************************************************************)
(* The utility primitive, UtilityFuncCRRA(CRRA) (HARK.rewards).  The model *)
(* covers CRRA in {1, 2} for the marginal utility and its inverse, and     *)
(* CRRA = 2 for the level of utility and its inverse.                      *)
(***************************************************************************)
\* uFunc(c) = c ** (1 - CRRA) / (1 - CRRA)
uFunc(c, CRRA) == FDiv(FPowInt(c, 1 - CRRA), (1 - CRRA) * Scale)
\* uFunc.der(c) = c ** (-CRRA)
uFunc_der(c, CRRA) == FPowInt(c, -CRRA)
\* uFunc.derinv(x) = x ** (-1 / CRRA)
uFunc_derinv(x, CRRA) == FInvRoot(x, CRRA)
\* uFunc.inv(v) = ((1 - CRRA) * v) ** (1 / (1 - CRRA))
uFunc_inv(v, CRRA) == FPowInt(FMul((1 - CRRA) * Scale, v), -1)

(***************************************************************************)
(* Function objects (HARK.interpolation, HARK.NullFunc): records tagged    *)
(* with the class name, and their evaluation.                              *)
(***************************************************************************)
NullFunc == [kind |-> "NullFunc"]
IdentityFunction(i_dim, n_dims) ==
    [kind |-> "IdentityFunction", i_dim |-> i_dim, n_dims |-> n_dims]
ConstantFunction(value) == [kind |-> "ConstantFunction", value |-> value]
\* LinearInterp(x_list, y_list): no limiting function, no lower extrapolation
LinearInterp(x_list, y_list) ==
    [kind |-> "LinearInterp", x_list |-> x_list, y_list |-> y_list,
     decay_extrap |-> FALSE, intercept_limit |-> NaN, slope_limit |-> NaN]
\* LinearInterp(x_list, y_list, intercept_limit, slope_limit)
LinearInterpLimit(x_list, y_list, intercept_limit, slope_limit) ==
    [kind |-> "LinearInterp", x_list |-> x_list, y_list |-> y_list,
     decay_extrap |-> TRUE, intercept_limit |-> intercept_limit,
     slope_limit |-> slope_limit]
LinearInterpOnInterp1D(xInterpolators, y_values) ==
    [kind |-> "LinearInterpOnInterp1D", xInterpolators |-> xInterpolators,
     y_list |-> y_values]
BilinearInterp(f_values, x_list, y_list) ==
    [kind |-> "BilinearInterp", f_values |-> f_values, x_list |-> x_list,
     y_list |-> y_list]
\* CubicInterp(x_list, f_list, dfdx_list): the model keeps the object and its
\* x nodes; it computes neither the node values nor the interpolant's value
CubicInterp(x_list) == [kind |-> "CubicInterp", x_list |-> x_list]
MargValueFuncCRRA(cFunc, CRRA) ==
    [kind |-> "MargValueFuncCRRA", cFunc |-> cFunc, CRRA |-> CRRA]
ValueFuncCRRA(vFuncNvrs, CRRA) ==
    [kind |-> "ValueFuncCRRA", vFuncNvrs |-> vFuncNvrs, CRRA |-> CRRA]

\* numpy's ordering of floats in sorting and searching: NaN sorts last
NpLt(a, b) == FLt(a, b) \/ (b = NaN /\ a # NaN)

RECURSIVE BinSearch(_, _, _, _)
BinSearch(xs, key, lo, hi) ==
    IF lo >= hi THEN lo
    ELSE LET mid == lo + ((hi - lo) \div 2)
         IN  IF NpLt(xs[mid + 1], key) THEN BinSearch(xs, key, mid + 1, hi)
             ELSE BinSearch(xs, key, lo, mid)

\* np.searchsorted(xs[0:n], key): a binary search, 0-based result in 0 .. n
searchsorted(xs, n, key) == BinSearch(xs, key, 0, n)

IMax(a, b) == IF a >= b THEN a ELSE b
IMin(a, b) == IF a <= b THEN a ELSE b

\* the linear combination (1 - alpha) * lo + alpha * hi
Lerp(alpha, lo, hi) == FAdd(FMul(FSub(One, alpha), lo), FMul(alpha, hi))

\* the value on the segment between the nodes i and i + 1
LinearInterpSegment(f, x, i) ==
    Lerp(FDiv(FSub(x, f.x_list[i]), FSub(f.x_list[i + 1], f.x_list[i])),
         f.y_list[i], f.y_list[i + 1])

\* the value above the top node n of an interpolant with a limiting line:
\* the limiting line less the gap to it at the top node, which closes as x
\* grows
LinearInterpExtrap(f, x, n) ==
    FSub(FAdd(f.intercept_limit, FMul(f.slope_limit, x)),
         FMul(FSub(FAdd(f.intercept_limit, FMul(f.slope_limit, f.x_list[n])),
                   f.y_list[n]),
              FDiv(f.x_list[n], x)))

\* LinearInterp.__call__(x)
LinearInterpEval(f, x) ==
    IF FLt(x, f.x_list[1]) THEN NaN
    ELSE IF f.decay_extrap /\ FGt(x, f.x_list[Len(f.x_list)])
         THEN LinearInterpExtrap(f, x, Len(f.x_list))
    ELSE LinearInterpSegment(f, x,
             IMax(searchsorted(f.x_list, Len(f.x_list) - 1, x), 1))

\* the 1-D function objects
Eval1D(f, x) ==
    CASE f.kind = "NullFunc" -> NaN
      [] f.kind = "IdentityFunction" -> x
      [] f.kind = "ConstantFunction" -> f.value
      [] f.kind = "LinearInterp" -> LinearInterpEval(f, x)

\* the interpolation between the 1-D interpolants j and j + 1
LinearInterpOnInterp1DSegment(f, x, y, j) ==
    Lerp(FDiv(FSub(y, f.y_list[j]), FSub(f.y_list[j + 1], f.y_list[j])),
         LinearInterpEval(f.xInterpolators[j], x),
         LinearInterpEval(f.xInterpolators[j + 1], x))

\* LinearInterpOnInterp1D.__call__(x, y)
LinearInterpOnInterp1DEval(f, x, y) ==
    LinearInterpOnInterp1DSegment(f, x, y,
        IMin(IMax(searchsorted(f.y_list, Len(f.y_list), y), 1), Len(f.y_list) - 1))

\* the bilinear combination of the four corners of the cell (i, j)
BilinearInterpCell(f, i, j, alpha, beta) ==
    FAdd(FAdd(FMul(FMul(FSub(One, alpha), FSub(One, beta)), f.f_values[i][j]),
              FMul(FMul(FSub(One, alpha), beta), f.f_values[i][j + 1])),
         FAdd(FMul(FMul(alpha, FSub(One, beta)), f.f_values[i + 1][j]),
              FMul(FMul(alpha, beta), f.f_values[i + 1][j + 1])))

\* the value in the cell (i, j) of the grid
BilinearInterpSegment(f, x, y, i, j) ==
    BilinearInterpCell(f, i, j,
        FDiv(FSub(x, f.x_list[i]), FSub(f.x_list[i + 1], f.x_list[i])),
        FDiv(FSub(y, f.y_list[j]), FSub(f.y_list[j + 1], f.y_list[j])))

\* BilinearInterp.__call__(x, y)
BilinearInterpEval(f, x, y) ==
    BilinearInterpSegment(f, x, y,
        IMin(IMax(searchsorted(f.x_list, Len(f.x_list), x), 1), Len(f.x_list) - 1),
        IMin(IMax(searchsorted(f.y_list, Len(f.y_list), y), 1), Len(f.y_list) - 1))

\* the 2-D function objects
Eval2D(f, x, y) ==
    CASE f.kind = "NullFunc" -> NaN
      [] f.kind = "IdentityFunction" -> (IF f.i_dim = 0 THEN x ELSE y)
      [] f.kind = "ConstantFunction" -> f.value
      [] f.kind = "LinearInterpOnInterp1D" -> LinearInterpOnInterp1DEval(f, x, y)
      [] f.kind = "BilinearInterp" -> BilinearInterpEval(f, x, y)

\* the function a CRRA wrapper holds (MargValueFuncCRRA.cFunc,
\* ValueFuncCRRA.vFuncNvrs); any other object is its own
Wrapped(f) ==
    CASE f.kind = "MargValueFuncCRRA" -> f.cFunc
      [] f.kind = "ValueFuncCRRA" -> f.vFuncNvrs
      [] OTHER -> f

\* what a CRRA wrapper makes of the value y of the function it holds:
\* MargValueFuncCRRA.__call__ is uFunc.der(cFunc(...)), ValueFuncCRRA.__call__
\* is uFunc(vFuncNvrs(...))
Unwrap(f, y) ==
    CASE f.kind = "MargValueFuncCRRA" -> uFunc_der(y, f.CRRA)
      [] f.kind = "ValueFuncCRRA" -> uFunc(y, f.CRRA)
      [] OTHER -> y

\* a function of market resources: a 1-D object, or the CRRA wrapper of one
Call1(f, m) == Unwrap(f, Eval1D(Wrapped(f), m))

\* a function of (market resources, share)
Call2(f, m, s) == Unwrap(f, Eval2D(Wrapped(f), m, s))

(***************************************************************************)
(* PortfolioSolution                                                       *)
(***************************************************************************)
None == [kind |-> "None"]

\* the argument kept as it was passed, None included
OrNullFunc_Kept(f) == f

\* "if f is None: f = NullFunc()"
OrNullFunc(f) == IF f = None THEN NullFunc ELSE f

\* PortfolioSolution.__init__ ; hNrm and MPCmin are attributes set afterwards
PortfolioSolution(cFuncAdj, ShareFuncAdj, vFuncAdj, vPfuncAdj, cFuncFxd,
                  ShareFuncFxd, vFuncFxd, dvdmFuncFxd, dvdsFuncFxd, aGrid,
                  Share_adj, EndOfPrddvda_adj, ShareGrid, EndOfPrddvda_fxd,
                  EndOfPrddvds_fxd, AdjPrb) ==
    [cFuncAdj |-> OrNullFunc(cFuncAdj),
     cFuncFxd |-> OrNullFunc(cFuncFxd),
     ShareFuncAdj |-> OrNullFunc(ShareFuncAdj),
     ShareFuncFxd |-> OrNullFunc(ShareFuncFxd),
     vFuncAdj |-> OrNullFunc(vFuncAdj),
     vFuncFxd |-> OrNullFunc(vFuncFxd),
     vPfuncAdj |-> OrNullFunc(vPfuncAdj),
     dvdmFuncFxd |-> OrNullFunc(dvdmFuncFxd),
     dvdsFuncFxd |-> OrNullFunc(dvdsFuncFxd),
     aGrid |-> aGrid,
     Share_adj |-> Share_adj,
     EndOfPrddvda_adj |-> EndOfPrddvda_adj,
     ShareGrid |-> ShareGrid,
     EndOfPrddvda_fxd |-> EndOfPrddvda_fxd,
     EndOfPrddvds_fxd |-> EndOfPrddvds_fxd,
     AdjPrb |-> AdjPrb,
     hNrm |-> None,
     MPCmin |-> None]

\* PortfolioConsumerType.update_solution_terminal
\* the terminal solution with the adjuster's share function built like its
\* consumption function
solution_terminal_IdentityShare(CRRA) ==
    LET cFuncAdj_terminal == IdentityFunction(0, 1)
        cFuncFxd_terminal == IdentityFunction(0, 2)
        sol == PortfolioSolution(
                   cFuncAdj_terminal, IdentityFunction(0, 1),
                   ValueFuncCRRA(cFuncAdj_terminal, CRRA),
                   MargValueFuncCRRA(cFuncAdj_terminal, CRRA),
                   cFuncFxd_terminal, IdentityFunction(1, 2),
                   ValueFuncCRRA(cFuncFxd_terminal, CRRA),
                   MargValueFuncCRRA(cFuncFxd_terminal, CRRA),
                   ConstantFunction(0),
                   None, None, None, None, None, None, None)
    IN  [sol EXCEPT !.hNrm = 0, !.MPCmin = One]

solution_terminal(CRRA) ==
    LET cFuncAdj_terminal == IdentityFunction(0, 1)
        cFuncFxd_terminal == IdentityFunction(0, 2)
        ShareFuncAdj_terminal == ConstantFunction(0)
        ShareFuncFxd_terminal == IdentityFunction(1, 2)
        vFuncAdj_terminal == ValueFuncCRRA(cFuncAdj_terminal, CRRA)
        vFuncFxd_terminal == ValueFuncCRRA(cFuncFxd_terminal, CRRA)
        vPfuncAdj_terminal == MargValueFuncCRRA(cFuncAdj_terminal, CRRA)
        dvdmFuncFxd_terminal == MargValueFuncCRRA(cFuncFxd_terminal, CRRA)
        dvdsFuncFxd_terminal == ConstantFunction(0)
        sol == PortfolioSolution(cFuncAdj_terminal, ShareFuncAdj_terminal,
                   vFuncAdj_terminal, vPfuncAdj_terminal, cFuncFxd_terminal,
                   ShareFuncFxd_terminal, vFuncFxd_terminal,
                   dvdmFuncFxd_terminal, dvdsFuncFxd_terminal,
                   None, None, None, None, None, None, None)
    IN  [sol EXCEPT !.hNrm = 0, !.MPCmin = One]

(***************************************************************************)
(* Discrete distributions and the expectation operator (HARK.distribution).*)
(* A distribution is the sequence of its atoms, each a record carrying its *)
(* probability pmv and the named shock values.                             *)
(***************************************************************************)
\* expected(func, dist, args): the probability-weighted sum of func over the atoms
expected(func(_), dist) ==
    FSum(np_array([k \in 1 .. Len(dist) |-> FMul(func(dist[k]), dist[k].pmv)]))

RECURSIVE FMinTo(_, _)
FMinTo(s, k) ==
    IF k = 1 THEN s[1]
    ELSE LET r == FMinTo(s, k - 1)
         IN  IF r = NaN \/ s[k] = NaN THEN NaN ELSE IF s[k] < r THEN s[k] ELSE r
\* np.min, np.max
np_min(s) == FMinTo(s, Len(s))
np_max(s) == FNeg(np_min(np_array([k \in 1 .. Len(s) |-> FNeg(s[k])])))

\* np.insert(arr, 0, value)
np_insert0(arr, value) == <<value>> \o arr

\* the product distribution of independent income and return shocks
combine_indep_dstns(IncShkDstn, RiskyDstn) ==
    LET nI == Len(IncShkDstn)
        nR == Len(RiskyDstn)
    IN  np_array([k \in 1 .. nI * nR |->
            LET i == ((k - 1) \div nR) + 1
                r == ((k - 1) % nR) + 1
            IN  [pmv |-> FMul(IncShkDstn[i].pmv, RiskyDstn[r].pmv),
                 PermShk |-> IncShkDstn[i].PermShk,
                 TranShk |-> IncShkDstn[i].TranShk,
                 Risky |-> RiskyDstn[r].Risky]])

(***************************************************************************)
(* solve_one_period_ConsPortfolio.  The argument record a carries the      *)
(* call's arguments under their Python names; sn is solution_next.         *)
(***************************************************************************)
\* the flag for whether the natural borrowing constraint is zero
BoroCnstNat_iszero(a) ==
    FEq(np_min(np_array([k \in 1 .. Len(a.IncShkDstn) |-> a.IncShkDstn[k].TranShk])), 0)

DiscFacEff(a) == FMul(a.DiscFac, a.LivPrb)

calc_Radj(a, R) ==
    LET Rport == FAdd(FMul(a.ShareLimit, R), FMul(FSub(One, a.ShareLimit), a.Rfree))
    IN  FPowInt(Rport, 1 - a.CRRA)

R_adj(a) == expected(LAMBDA S : calc_Radj(a, S.Risky), a.RiskyDstn)

PatFac(a) == FRoot(FMul(DiscFacEff(a), R_adj(a)), a.CRRA)

\* MPCminNow without the recursion on solution_next.MPCmin
MPCminNow_NoRecursion(sn, a) == FDiv(One, FAdd(One, PatFac(a)))

MPCminNow(sn, a) == FDiv(One, FAdd(One, FDiv(PatFac(a), sn.MPCmin)))

calc_hNrm(sn, a, S) ==
    LET G == FMul(a.PermGroFac, S.PermShk)
        Rport == FAdd(FMul(a.ShareLimit, S.Risky),
                      FMul(FSub(One, a.ShareLimit), a.Rfree))
    IN  FMul(FDiv(G, FPowInt(Rport, a.CRRA)), FAdd(S.TranShk, sn.hNrm))

hNrmNow(sn, a) ==
    FDiv(expected(LAMBDA S : calc_hNrm(sn, a, S), a.ShockDstn), R_adj(a))

cFuncLimitIntercept(sn, a) == FMul(MPCminNow(sn, a), hNrmNow(sn, a))
cFuncLimitSlope(sn, a) == MPCminNow(sn, a)

RiskyMax(a) == np_max(np_array([k \in 1 .. Len(a.RiskyDstn) |-> a.RiskyDstn[k].Risky]))
RiskyMin(a) == np_min(np_array([k \in 1 .. Len(a.RiskyDstn) |-> a.RiskyDstn[k].Risky]))

\* aNrmGrid without the added asset point
aNrmGrid_AsGiven(a) == a.aXtraGrid

aNrmGrid(a) ==
    IF BoroCnstNat_iszero(a) THEN a.aXtraGrid ELSE np_insert0(a.aXtraGrid, 0)

bNrmGrid(a) ==
    IF BoroCnstNat_iszero(a)
    THEN np_insert0(np_array([i \in 1 .. Len(a.aXtraGrid) |-> FMul(RiskyMax(a), a.aXtraGrid[i])]),
                    FMul(RiskyMin(a), a.aXtraGrid[1]))
    ELSE LET g == np_insert0(a.aXtraGrid, 0)
         IN  np_array([i \in 1 .. Len(g) |-> FMul(RiskyMax(a), g[i])])

\* the combination with "<=" written for "<" in its guard
CombineByAdjustPrb_LessOrEqual(a, adj_next, FuncFxd_next, mNrm_next, z) ==
    IF FLe(a.AdjustPrb, One)
    THEN FAdd(FMul(a.AdjustPrb, adj_next),
              FMul(FSub(One, a.AdjustPrb), Call2(FuncFxd_next, mNrm_next, z)))
    ELSE adj_next

\* combine the adjusting and the fixed regime by the adjustment probability;
\* next period's fixed-regime function is only evaluated when AdjustPrb < 1
CombineByAdjustPrb(a, adj_next, FuncFxd_next, mNrm_next, z) ==
    IF FLt(a.AdjustPrb, One)
    THEN FAdd(FMul(a.AdjustPrb, adj_next),
              FMul(FSub(One, a.AdjustPrb), Call2(FuncFxd_next, mNrm_next, z)))
    ELSE adj_next

(* ---- the independent path: income shocks first, then return shocks ---- *)
calc_mNrm_next(a, S, b) ==
    FAdd(FDiv(b, FMul(S.PermShk, a.PermGroFac)), S.TranShk)

calc_dvdm_next(sn, a, S, b, z) ==
    LET mNrm_next == calc_mNrm_next(a, S, b)
        dvdmAdj_next == Call1(sn.vPfuncAdj, mNrm_next)
        dvdm_next == CombineByAdjustPrb(a, dvdmAdj_next, sn.dvdmFuncFxd, mNrm_next, z)
    IN  FMul(FPowInt(FMul(S.PermShk, a.PermGroFac), -a.CRRA), dvdm_next)

calc_dvds_next(sn, a, S, b, z) ==
    LET mNrm_next == calc_mNrm_next(a, S, b)
        dvdsAdj_next == 0
        dvds_next == CombineByAdjustPrb(a, dvdsAdj_next, sn.dvdsFuncFxd, mNrm_next, z)
    IN  FMul(FPowInt(FMul(S.PermShk, a.PermGroFac), 1 - a.CRRA), dvds_next)

calc_v_intermed(sn, a, S, b, z) ==
    LET mNrm_next == calc_mNrm_next(a, S, b)
        vAdj_next == Call1(sn.vFuncAdj, mNrm_next)
        v_next == CombineByAdjustPrb(a, vAdj_next, sn.vFuncFxd, mNrm_next, z)
    IN  FMul(FPowInt(FMul(S.PermShk, a.PermGroFac), 1 - a.CRRA), v_next)

calc_EndOfPrd_dvda(a, dvdbFunc_intermed, S, aNrm, z) ==
    LET Rxs == FSub(S.Risky, a.Rfree)
        Rport == FAdd(a.Rfree, FMul(z, Rxs))
        bNrm_next == FMul(Rport, aNrm)
    IN  FMul(Rport, Call2(dvdbFunc_intermed, bNrm_next, z))

calc_EndOfPrddvds(a, dvdbFunc_intermed, dvdsFunc_intermed, S, aNrm, z) ==
    LET Rxs == FSub(S.Risky, a.Rfree)
        Rport == FAdd(a.Rfree, FMul(z, Rxs))
        bNrm_next == FMul(Rport, aNrm)
    IN  FAdd(FMul(FMul(Rxs, aNrm), Call2(dvdbFunc_intermed, bNrm_next, z)),
             Call2(dvdsFunc_intermed, bNrm_next, z))

calc_EndOfPrd_v(a, vFunc_intermed, S, aNrm, z) ==
    LET Rxs == FSub(S.Risky, a.Rfree)
        Rport == FAdd(a.Rfree, FMul(z, Rxs))
        bNrm_next == FMul(Rport, aNrm)
    IN  Call2(vFunc_intermed, bNrm_next, z)

\* the arrays of the independent path, over (aNrmGrid, ShareGrid)
EndOfPrd_Indep(sn, a) ==
    LET aG == aNrmGrid(a)
        bG == bNrmGrid(a)
        zG == a.ShareGrid
        dvdb_intermed == np_array([i \in 1 .. Len(bG) |-> np_array([j \in 1 .. Len(zG) |->
            expected(LAMBDA S : calc_dvdm_next(sn, a, S, bG[i], zG[j]), a.IncShkDstn)])])
        dvdbNvrs_intermed == np_array([i \in 1 .. Len(bG) |-> np_array([j \in 1 .. Len(zG) |->
            uFunc_derinv(dvdb_intermed[i][j], a.CRRA)])])
        dvdbNvrsFunc_intermed == BilinearInterp(dvdbNvrs_intermed, bG, zG)
        dvdbFunc_intermed == MargValueFuncCRRA(dvdbNvrsFunc_intermed, a.CRRA)
        dvds_intermed == np_array([i \in 1 .. Len(bG) |-> np_array([j \in 1 .. Len(zG) |->
            expected(LAMBDA S : calc_dvds_next(sn, a, S, bG[i], zG[j]), a.IncShkDstn)])])
        dvdsFunc_intermed == BilinearInterp(dvds_intermed, bG, zG)
        dvda == np_array([i \in 1 .. Len(aG) |-> np_array([j \in 1 .. Len(zG) |->
            FMul(DiscFacEff(a),
                 expected(LAMBDA S : calc_EndOfPrd_dvda(a, dvdbFunc_intermed, S, aG[i], zG[j]),
                          a.RiskyDstn))])])
        dvds == np_array([i \in 1 .. Len(aG) |-> np_array([j \in 1 .. Len(zG) |->
            FMul(DiscFacEff(a),
                 expected(LAMBDA S : calc_EndOfPrddvds(a, dvdbFunc_intermed,
                                         dvdsFunc_intermed, S, aG[i], zG[j]),
                          a.RiskyDstn))])])
        v_intermed == np_array([i \in 1 .. Len(bG) |-> np_array([j \in 1 .. Len(zG) |->
            expected(LAMBDA S : calc_v_intermed(sn, a, S, bG[i], zG[j]), a.IncShkDstn)])])
        vNvrs_intermed == np_array([i \in 1 .. Len(bG) |-> np_array([j \in 1 .. Len(zG) |->
            uFunc_inv(v_intermed[i][j], a.CRRA)])])
        vNvrsFunc_intermed == BilinearInterp(vNvrs_intermed, bG, zG)
        vFunc_intermed == ValueFuncCRRA(vNvrsFunc_intermed, a.CRRA)
        v == np_array([i \in 1 .. Len(aG) |-> np_array([j \in 1 .. Len(zG) |->
            FMul(DiscFacEff(a),
                 expected(LAMBDA S : calc_EndOfPrd_v(a, vFunc_intermed, S, aG[i], zG[j]),
                          a.RiskyDstn))])])
    IN  [EndOfPrd_dvda |-> dvda,
         EndOfPrd_dvds |-> dvds,
         EndOfPrd_v |-> IF a.vFuncBool THEN v ELSE None]

(* ---- the joint path: one expectation over the joint distribution ---- *)
calc_mNrm_next_joint(a, S, aNrm, z) ==
    LET Rxs == FSub(S.Risky, a.Rfree)
        Rport == FAdd(a.Rfree, FMul(z, Rxs))
        bNrm_next == FMul(Rport, aNrm)
    IN  FAdd(FDiv(bNrm_next, FMul(S.PermShk, a.PermGroFac)), S.TranShk)

\* calc_EndOfPrd_dvdx returns the pair (EndOfPrd_dvda, EndOfPrd_dvds)
calc_EndOfPrd_dvdx(sn, a, S, aNrm, z) ==
    LET mNrm_next == calc_mNrm_next_joint(a, S, aNrm, z)
        Rxs == FSub(S.Risky, a.Rfree)
        Rport == FAdd(a.Rfree, FMul(z, Rxs))
        dvdmAdj_next == Call1(sn.vPfuncAdj, mNrm_next)
        dvdsAdj_next == 0
        dvdm_next == CombineByAdjustPrb(a, dvdmAdj_next, sn.dvdmFuncFxd, mNrm_next, z)
        dvds_next == CombineByAdjustPrb(a, dvdsAdj_next, sn.dvdsFuncFxd, mNrm_next, z)
        G == FMul(S.PermShk, a.PermGroFac)
    IN  <<FMul(FMul(Rport, FPowInt(G, -a.CRRA)), dvdm_next),
          FAdd(FMul(FMul(FMul(Rxs, aNrm), FPowInt(G, -a.CRRA)), dvdm_next),
               FMul(FPowInt(G, 1 - a.CRRA), dvds_next))>>

calc_EndOfPrd_v_joint(sn, a, S, aNrm, z) ==
    LET mNrm_next == calc_mNrm_next_joint(a, S, aNrm, z)
        vAdj_next == Call1(sn.vFuncAdj, mNrm_next)
        v_next == CombineByAdjustPrb(a, vAdj_next, sn.vFuncFxd, mNrm_next, z)
    IN  FMul(FPowInt(FMul(S.PermShk, a.PermGroFac), 1 - a.CRRA), v_next)

\* the arrays of the joint path, over (aNrmGrid, ShareGrid)
EndOfPrd_Joint(sn, a) ==
    LET aG == aNrmGrid(a)
        zG == a.ShareGrid
        dvda == np_array([i \in 1 .. Len(aG) |-> np_array([j \in 1 .. Len(zG) |->
            FMul(DiscFacEff(a),
                 expected(LAMBDA S : calc_EndOfPrd_dvdx(sn, a, S, aG[i], zG[j])[1],
                          a.ShockDstn))])])
        dvds == np_array([i \in 1 .. Len(aG) |-> np_array([j \in 1 .. Len(zG) |->
            FMul(DiscFacEff(a),
                 expected(LAMBDA S : calc_EndOfPrd_dvdx(sn, a, S, aG[i], zG[j])[2],
                          a.ShockDstn))])])
        v == np_array([i \in 1 .. Len(aG) |-> np_array([j \in 1 .. Len(zG) |->
            FMul(DiscFacEff(a),
                 expected(LAMBDA S : calc_EndOfPrd_v_joint(sn, a, S, aG[i], zG[j]),
                          a.ShockDstn))])])
    IN  [EndOfPrd_dvda |-> dvda,
         EndOfPrd_dvds |-> dvds,
         EndOfPrd_v |-> IF a.vFuncBool THEN v ELSE None]

\* the end-of-period arrays of the call, by the path the flag selects
EndOfPrd(sn, a) ==
    IF a.IndepDstnBool THEN EndOfPrd_Indep(sn, a) ELSE EndOfPrd_Joint(sn, a)

(* ---- the optimal share and consumption at each asset gridpoint ---- *)
EndOfPrd_dvdaNvrs(a, E) ==
    np_array([i \in 1 .. Len(E.EndOfPrd_dvda) |-> np_array([j \in 1 .. Len(a.ShareGrid) |->
        uFunc_derinv(E.EndOfPrd_dvda[i][j], a.CRRA)])])

RECURSIVE ArgmaxTo(_, _)
\* the 1-based index of the first maximum of row[1 .. k]; a NaN counts as
\* the maximum, as in np.argmax
ArgmaxTo(row, k) ==
    IF k = 1 THEN 1
    ELSE LET b == ArgmaxTo(row, k - 1)
         IN  IF row[b] = NaN THEN b
             ELSE IF row[k] = NaN \/ row[k] > row[b] THEN k ELSE b
np_argmax(row) == ArgmaxTo(row, Len(row))

\* crossing without its first operand: the segments whose lower end is >= 0
crossing_BottomOnly(FOC_row) ==
    np_array([j \in 1 .. Len(FOC_row) - 1 |-> FGe(FOC_row[j], 0)])

\* crossing[j] for the segments j = 1 .. ShareCount - 1 of one row of FOC_s
crossing(FOC_row) ==
    np_array([j \in 1 .. Len(FOC_row) - 1 |-> FLe(FOC_row[j + 1], 0) /\ FGe(FOC_row[j], 0)])

\* np.argmax of a boolean row: the first TRUE, the first entry if there is none
share_idx(FOC_row) ==
    LET c == crossing(FOC_row)
        hits == {j \in 1 .. Len(c) : c[j]}
    IN  IF hits = {} THEN 1 ELSE CHOOSE j \in hits : \A k \in hits : j <= k

\* alpha = 1.0 - top_f / (top_f - bot_f)
alpha(FOC_row) ==
    LET bot_f == FOC_row[share_idx(FOC_row)]
        top_f == FOC_row[share_idx(FOC_row) + 1]
    IN  FSub(One, FDiv(top_f, FSub(top_f, bot_f)))

\* constrained_top with the comparison turned round
constrained_top_Negative(FOC_row) == FLt(FOC_row[Len(FOC_row)], 0)

\* constrained_top and constrained_bot of one row
constrained_top(FOC_row) == FGt(FOC_row[Len(FOC_row)], 0)
constrained_bot(FOC_row) == FLt(FOC_row[1], 0)

\* opt_idx taking the last of several equal maxima of the row
opt_idx_Last(E, i) ==
    CHOOSE j \in 1 .. Len(E.EndOfPrd_v[i]) :
        /\ E.EndOfPrd_v[i][j] = E.EndOfPrd_v[i][np_argmax(E.EndOfPrd_v[i])]
        /\ \A k \in j + 1 .. Len(E.EndOfPrd_v[i]) : E.EndOfPrd_v[i][k] # E.EndOfPrd_v[i][j]

\* ShareAdj_now and cNrmAdj_now in discrete mode, by asset gridpoint
opt_idx(E, i) == np_argmax(E.EndOfPrd_v[i])
ShareAdj_discrete(a, E, i) == a.ShareGrid[opt_idx(E, i)]
cNrmAdj_discrete(a, E, cN, i) == cN[i][opt_idx(E, i)]

\* ShareAdj_now with the two constraints applied in the other order
ShareAdj_continuous_TopLast(a, E, i) ==
    LET FOC_row == E.EndOfPrd_dvds[i]
        k == share_idx(FOC_row)
        interior == Lerp(alpha(FOC_row), a.ShareGrid[k], a.ShareGrid[k + 1])
        bot == IF constrained_bot(FOC_row) THEN 0 ELSE interior
    IN  IF constrained_top(FOC_row) THEN One ELSE bot

\* ShareAdj_now and cNrmAdj_now in continuous mode, by asset gridpoint
ShareAdj_continuous(a, E, i) ==
    LET FOC_row == E.EndOfPrd_dvds[i]
        k == share_idx(FOC_row)
        interior == Lerp(alpha(FOC_row), a.ShareGrid[k], a.ShareGrid[k + 1])
        top == IF constrained_top(FOC_row) THEN One ELSE interior
    IN  IF constrained_bot(FOC_row) THEN 0 ELSE top

cNrmAdj_continuous(a, E, cN, i) ==
    LET FOC_row == E.EndOfPrd_dvds[i]
        k == share_idx(FOC_row)
        interior == Lerp(alpha(FOC_row), cN[i][k], cN[i][k + 1])
        top == IF constrained_top(FOC_row) THEN cN[i][Len(a.ShareGrid)] ELSE interior
    IN  IF constrained_bot(FOC_row) THEN cN[i][1] ELSE top

\* ShareAdj_now after the fix of the bottom gridpoint
ShareAdj_now(a, E) ==
    np_array([i \in 1 .. Len(E.EndOfPrd_dvda) |->
        IF ~BoroCnstNat_iszero(a) /\ i = 1 THEN One
        ELSE IF a.DiscreteShareBool THEN ShareAdj_discrete(a, E, i)
        ELSE ShareAdj_continuous(a, E, i)])

\* cNrmAdj_now after the fix of the bottom gridpoint
cNrmAdj_now(a, E) ==
    LET cN == EndOfPrd_dvdaNvrs(a, E)
    IN  np_array([i \in 1 .. Len(E.EndOfPrd_dvda) |->
            IF ~BoroCnstNat_iszero(a) /\ i = 1 THEN cN[1][Len(a.ShareGrid)]
            ELSE IF a.DiscreteShareBool THEN cNrmAdj_discrete(a, E, cN, i)
            ELSE cNrmAdj_continuous(a, E, cN, i)])

(* ---- the functions of this period's solution ---- *)
\* the endogenous gridpoints, the origin prepended
mNrmAdj_now(a, cNrmAdj) ==
    LET aG == aNrmGrid(a)
    IN  np_insert0(np_array([i \in 1 .. Len(aG) |-> FAdd(aG[i], cNrmAdj[i])]), 0)

cFuncAdj_now(a, cNrmAdj) ==
    LinearInterp(mNrmAdj_now(a, cNrmAdj), np_insert0(cNrmAdj, 0))

\* the fixed-share consumption function at share gridpoint j
cFuncFxd_by_Share(a, cN, j) ==
    LET aG == aNrmGrid(a)
        cNrmFxd_temp == np_insert0(np_array([i \in 1 .. Len(aG) |-> cN[i][j]]), 0)
        mNrmFxd_temp == np_insert0(np_array([i \in 1 .. Len(aG) |->
                                       FAdd(aG[i], cNrmFxd_temp[i + 1])]), 0)
    IN  LinearInterp(mNrmFxd_temp, cNrmFxd_temp)

\* the marginal value of the share at share gridpoint j
dvdsFuncFxd_by_Share(a, E, cN, j) ==
    LET aG == aNrmGrid(a)
        mNrmFxd_temp == np_insert0(np_array([i \in 1 .. Len(aG) |-> FAdd(aG[i], cN[i][j])]), 0)
        dvdsFxd_temp == np_insert0(np_array([i \in 1 .. Len(aG) |-> E.EndOfPrd_dvds[i][j]]),
                                   E.EndOfPrd_dvds[1][j])
    IN  LinearInterp(mNrmFxd_temp, dvdsFxd_temp)

\* mid * (1.0 + 1e-12): the next representable value away from zero
TimesOnePlusEps(x) == IF IsFinite(x) THEN x + Sgn(x) ELSE x

\* the share function of discrete mode with its jumps at the gridpoints
\* themselves
ShareFuncAdj_discrete_AtGridpoints(mNrmAdj, ShareAdj) ==
    LET N == Len(ShareAdj)
        mNrmAdj_mid == np_array([i \in 1 .. N - 1 |-> mNrmAdj[i + 1]])
        mNrmAdj_plus == np_array([i \in 1 .. N - 1 |-> TimesOnePlusEps(mNrmAdj_mid[i])])
        interleaved == np_array([k \in 1 .. 2 * (N - 1) |->
            IF k % 2 = 1 THEN mNrmAdj_mid[(k + 1) \div 2] ELSE mNrmAdj_plus[k \div 2]])
        mNrmAdj_comb == Append(np_insert0(interleaved, 0), mNrmAdj[N + 1])
        Share_comb == np_array([k \in 1 .. 2 * N |-> ShareAdj[(k + 1) \div 2]])
    IN  LinearInterp(mNrmAdj_comb, Share_comb)

\* the share function of discrete mode: a step function with steep ramps
ShareFuncAdj_discrete(mNrmAdj, ShareAdj) ==
    LET N == Len(ShareAdj)
        mNrmAdj_mid == np_array([i \in 1 .. N - 1 |->
            FDiv(FAdd(mNrmAdj[i + 2], mNrmAdj[i + 1]), 2 * Scale)])
        mNrmAdj_plus == np_array([i \in 1 .. N - 1 |-> TimesOnePlusEps(mNrmAdj_mid[i])])
        interleaved == np_array([k \in 1 .. 2 * (N - 1) |->
            IF k % 2 = 1 THEN mNrmAdj_mid[(k + 1) \div 2] ELSE mNrmAdj_plus[k \div 2]])
        mNrmAdj_comb == Append(np_insert0(interleaved, 0), mNrmAdj[N + 1])
        Share_comb == np_array([k \in 1 .. 2 * N |-> ShareAdj[(k + 1) \div 2]])
    IN  LinearInterp(mNrmAdj_comb, Share_comb)

\* the lower bound inserted at the origin of the continuous share function
Share_lower_bound(a) == IF BoroCnstNat_iszero(a) THEN a.ShareLimit ELSE One

\* ShareAdj_now as it stands when save_points is taken
ShareAdj_saved(a, ShareAdj) ==
    IF a.DiscreteShareBool THEN ShareAdj
    ELSE np_insert0(ShareAdj, Share_lower_bound(a))

ShareFuncAdj_now(a, mNrmAdj, ShareAdj) ==
    IF a.DiscreteShareBool THEN ShareFuncAdj_discrete(mNrmAdj, ShareAdj)
    ELSE LinearInterpLimit(mNrmAdj, ShareAdj_saved(a, ShareAdj), a.ShareLimit, 0)

\* the snapshot of grids and values stored in the solution
save_points(a, E, cNrmAdj, ShareAdj) ==
    LET cNrmAdj_ins == np_insert0(cNrmAdj, 0)
    IN  [a |-> aNrmGrid(a),
         eop_dvda_adj |-> np_array([i \in 1 .. Len(cNrmAdj_ins) |->
                              uFunc_der(cNrmAdj_ins[i], a.CRRA)]),
         share_adj |-> ShareAdj_saved(a, ShareAdj),
         share_grid |-> a.ShareGrid,
         eop_dvda_fxd |-> np_array([i \in 1 .. Len(E.EndOfPrd_dvda) |->
                              np_array([j \in 1 .. Len(a.ShareGrid) |->
                                  uFunc_der(E.EndOfPrd_dvda[i][j], a.CRRA)])]),
         eop_dvds_fxd |-> E.EndOfPrd_dvds]

\* the value functions: constructed when vFuncBool, NullFunc otherwise
vFuncAdj_now(a) ==
    IF a.vFuncBool
    THEN ValueFuncCRRA(CubicInterp(np_insert0(a.aXtraGrid, 0)), a.CRRA)
    ELSE NullFunc

vFuncFxd_now(a) ==
    IF a.vFuncBool
    THEN LET x_list == np_insert0(np_array([j \in 1 .. Len(a.ShareGrid) |-> a.aXtraGrid[1]]), 0)
             vNvrsFuncFxd_by_Share == np_array([j \in 1 .. Len(a.ShareGrid) |-> CubicInterp(x_list)])
         IN  ValueFuncCRRA(LinearInterpOnInterp1D(vNvrsFuncFxd_by_Share, a.ShareGrid),
                           a.CRRA)
    ELSE NullFunc

\* the solution built from the end-of-period arrays E, their inverse cN and
\* the adjuster's optimal share and consumption at each asset gridpoint
solution_now_from(sn, a, E, cN, ShareAdj, cNrmAdj) ==
    LET mNrmAdj == mNrmAdj_now(a, cNrmAdj)
        cFuncAdj == cFuncAdj_now(a, cNrmAdj)
        vPfuncAdj_now == MargValueFuncCRRA(cFuncAdj, a.CRRA)
        cFuncFxd_now == LinearInterpOnInterp1D(
            np_array([j \in 1 .. Len(a.ShareGrid) |-> cFuncFxd_by_Share(a, cN, j)]), a.ShareGrid)
        dvdsFuncFxd_now == LinearInterpOnInterp1D(
            np_array([j \in 1 .. Len(a.ShareGrid) |-> dvdsFuncFxd_by_Share(a, E, cN, j)]),
            a.ShareGrid)
        ShareFuncFxd_now == IdentityFunction(1, 2)
        dvdmFuncFxd_now == MargValueFuncCRRA(cFuncFxd_now, a.CRRA)
        sp == save_points(a, E, cNrmAdj, ShareAdj)
        sol == PortfolioSolution(cFuncAdj, ShareFuncAdj_now(a, mNrmAdj, ShareAdj),
                   vFuncAdj_now(a), vPfuncAdj_now, cFuncFxd_now, ShareFuncFxd_now,
                   vFuncFxd_now(a), dvdmFuncFxd_now, dvdsFuncFxd_now,
                   sp.a, sp.share_adj, sp.eop_dvda_adj, sp.share_grid,
                   sp.eop_dvda_fxd, sp.eop_dvds_fxd, a.AdjustPrb)
    IN  [sol EXCEPT !.hNrm = hNrmNow(sn, a), !.MPCmin = MPCminNow(sn, a)]

\* the optimal share and consumption from the end-of-period arrays E
solution_now_EndOfPrd(sn, a, E) ==
    solution_now_from(sn, a, E, EndOfPrd_dvdaNvrs(a, E), ShareAdj_now(a, E),
                      cNrmAdj_now(a, E))

\* the body of the solver after its two checks: the returned solution
solution_now(sn, a) == solution_now_EndOfPrd(sn, a, EndOfPrd(sn, a))

(* ---- the arrays of the call as objects: which local name is bound to  ---- *)
(* ---- which array, and the assignments made in place                  ---- *)
\* ShareAdj_now bound to the share grid itself, as a slice of it would be
ObjectOf_SliceOfShareGrid(a, name) ==
    CASE name = "aNrmGrid" -> (IF BoroCnstNat_iszero(a) THEN "aXtraGrid" ELSE "new")
      [] name = "Risky_next" -> "RiskyDstn"
      [] name = "ShareAdj_now" -> (IF a.DiscreteShareBool THEN "ShareGrid" ELSE "new")
      [] OTHER -> "new"

\* the array a local name is bound to when the in-place assignments are
\* made: an argument of the call, or "new" for an array the call created
\* (np.insert, arithmetic and indexing with an index array all return new
\* arrays; a plain assignment binds the name to the same array)
ObjectOf(a, name) ==
    CASE name = "aNrmGrid" -> (IF BoroCnstNat_iszero(a) THEN "aXtraGrid" ELSE "new")
      [] name = "Risky_next" -> "RiskyDstn"
      [] OTHER -> "new"

\* the assignments X[where] = value of the call, in program order; where is
\* the set of (1-based) positions assigned, value the value by position
InPlaceWrites(a, E, cN) ==
    LET rows == 1 .. Len(E.EndOfPrd_dvda)
        top == {i \in rows : constrained_top(E.EndOfPrd_dvds[i])}
        bot == {i \in rows : constrained_bot(E.EndOfPrd_dvds[i])}
        last == Len(a.ShareGrid)
    IN  (IF a.DiscreteShareBool THEN <<>>
         ELSE <<[target |-> "ShareAdj_now", where |-> top, value |-> [i \in rows |-> One]],
                [target |-> "ShareAdj_now", where |-> bot, value |-> [i \in rows |-> 0]],
                [target |-> "cNrmAdj_now", where |-> top, value |-> [i \in rows |-> cN[i][last]]],
                [target |-> "cNrmAdj_now", where |-> bot, value |-> [i \in rows |-> cN[i][1]]]>>)
        \o (IF BoroCnstNat_iszero(a) THEN <<>>
            ELSE <<[target |-> "ShareAdj_now", where |-> {1}, value |-> [i \in rows |-> One]],
                   [target |-> "cNrmAdj_now", where |-> {1},
                    value |-> [i \in rows |-> cN[1][last]]]>>)

\* the arrays `heap` after the in-place assignments writes[k .. ] on the
\* objects the targets are bound to; an assignment to a new array changes
\* no array of heap
RECURSIVE Store(_, _, _, _)
Store(heap, a, writes, k) ==
    IF k > Len(writes) THEN heap
    ELSE LET w == writes[k]
             obj == ObjectOf(a, w.target)
         IN  Store(IF obj \in DOMAIN heap
                   THEN [heap EXCEPT ![obj] =
                            [i \in DOMAIN @ |-> IF i \in w.where THEN w.value[i] ELSE @[i]]]
                   ELSE heap,
                   a, writes, k + 1)

\* the arguments of the call that are objects: two arrays, three
\* distributions and solution_next
Inputs(sn, a) ==
    [aXtraGrid |-> a.aXtraGrid, ShareGrid |-> a.ShareGrid,
     ShockDstn |-> a.ShockDstn, IncShkDstn |-> a.IncShkDstn,
     RiskyDstn |-> a.RiskyDstn, solution_next |-> sn]

\* the same objects when a call that got past its two checks has returned
InputsAfter(sn, a, E) ==
    LET heap == Store([aXtraGrid |-> a.aXtraGrid, ShareGrid |-> a.ShareGrid], a,
                      InPlaceWrites(a, E, EndOfPrd_dvdaNvrs(a, E)), 1)
    IN  [Inputs(sn, a) EXCEPT !.aXtraGrid = heap.aXtraGrid,
                              !.ShareGrid = heap.ShareGrid]

(* ---- the call: the two checks, then the body ---- *)
\* a Python value that is a float or None
PyFloat(x) == [type |-> "float", value |-> x]
PyNone == [type |-> "NoneType"]
\* v != 0.0
PyNeZero(v) == IF v.type = "float" THEN FNe(v.value, 0) ELSE TRUE

\* the number of expected() calls of a call that returns
ExpectedCalls(a) ==
    2 + (IF a.IndepDstnBool THEN 4 + (IF a.vFuncBool THEN 2 ELSE 0)
         ELSE 1 + (IF a.vFuncBool THEN 1 ELSE 0))

ArgNames ==
    {"solution_next", "ShockDstn", "IncShkDstn", "RiskyDstn", "LivPrb", "DiscFac",
     "CRRA", "Rfree", "PermGroFac", "BoroCnstArt", "aXtraGrid", "ShareGrid",
     "AdjustPrb", "ShareLimit", "vFuncBool", "DiscreteShareBool", "IndepDstnBool"}

\* how a call ends when one of the two checks raises
RaiseValueError(message, read) ==
    [outcome |-> "ValueError", message |-> message, read |-> read,
     expectations |-> 0, solution |-> None]

\* the check as it would be if None, the documented "no artificial
\* constraint", were let through
BoroCnstArtCheck_NoneSkipped(a) ==
    a.BoroCnstArt # PyNone /\ PyNeZero(a.BoroCnstArt)

\* the first statement of the solver: if BoroCnstArt != 0.0
BoroCnstArtCheck(a) == PyNeZero(a.BoroCnstArt)

\* the check with "or" written for "and"
DiscreteShareCheck_Or(a) == a.DiscreteShareBool \/ ~a.vFuncBool

\* the second statement: if DiscreteShareBool and (not vFuncBool)
DiscreteShareCheck(a) == a.DiscreteShareBool /\ ~a.vFuncBool

\* the solver from its second statement on
AfterBoroCnstArtCheck(sn, a) ==
    IF DiscreteShareCheck(a)
    THEN RaiseValueError(
             "PortfolioConsumerType requires vFuncBool to be True when DiscreteShareBool is True!",
             {"BoroCnstArt", "DiscreteShareBool", "vFuncBool"})
    ELSE IF sn = None
    THEN [outcome |-> "AttributeError",
          message |-> "'NoneType' object has no attribute 'vPfuncAdj'",
          read |-> {"BoroCnstArt", "DiscreteShareBool", "vFuncBool", "CRRA",
                    "DiscFac", "LivPrb", "solution_next"},
          expectations |-> 0, solution |-> None]
    ELSE [outcome |-> "returned", message |-> "",
          read |-> ArgNames, expectations |-> ExpectedCalls(a),
          solution |-> solution_now(sn, a)]

\* solve_one_period_ConsPortfolio: how the call ends (outcome), the arguments
\* it has read by then, the expectations it has taken, and what it returns
solve_one_period_ConsPortfolio(sn, a) ==
    IF BoroCnstArtCheck(a)
    THEN RaiseValueError("PortfolioConsumerType must have BoroCnstArt=0.0!",
                         {"BoroCnstArt"})
    ELSE AfterBoroCnstArtCheck(sn, a)

(***************************************************************************)
(* The state machine of the solver: an agent's parameters, the solutions   *)
(* found so far by backward induction (solution[1] is the earliest period, *)
(* the last one the terminal period), and the last call of the solver.     *)
(***************************************************************************)
\* the longest chain of solved periods the model explores
MaxPeriods == 2

\* income shock distributions: (PermShk, TranShk) atoms
IncShkDstn_a ==
    <<[pmv |-> 500, PermShk |-> 1000, TranShk |-> 500],
      [pmv |-> 500, PermShk |-> 1000, TranShk |-> 1500]>>
IncShkDstn_b ==
    <<[pmv |-> 200, PermShk |-> 800, TranShk |-> 0],
      [pmv |-> 800, PermShk |-> 1250, TranShk |-> 1200]>>

\* risky return distributions: a premium over Rfree, a discount, a riskless
\* "risky" asset paying exactly Rfree, and a premium with a wide spread
RiskyDstn_a == <<[pmv |-> 500, Risky |-> 500], [pmv |-> 500, Risky |-> 2000]>>
RiskyDstn_d == <<[pmv |-> 500, Risky |-> 100], [pmv |-> 500, Risky |-> 3000]>>
RiskyDstn_b == <<[pmv |-> 500, Risky |-> 600], [pmv |-> 500, Risky |-> 1200]>>
RiskyDstn_c == <<[pmv |-> 1000, Risky |-> 1000]>>
\* a risky asset that never pays less than Rfree
RiskyDstn_e == <<[pmv |-> 500, Risky |-> 1100], [pmv |-> 500, Risky |-> 1500]>>

\* the (IncShkDstn, RiskyDstn) pairs a period of the cycle can have
ShockPairs ==
    {<<IncShkDstn_a, RiskyDstn_d>>, <<IncShkDstn_a, RiskyDstn_b>>,
     <<IncShkDstn_a, RiskyDstn_c>>, <<IncShkDstn_b, RiskyDstn_a>>,
     <<IncShkDstn_a, RiskyDstn_e>>}

\* the (aXtraGrid, ShareGrid) pairs an agent can have
Grids == {<<(<<250, 1000, 3000>>), (<<0, 500, 1000>>)>>,
          <<(<<220, 290>>), (<<0, 1000>>)>>}
AdjustPrbs == {1000, 500}
BoroCnstArts == {PyFloat(0), PyFloat(1000), PyNone}

\* the time-invariant attributes of an agent
ParamSets ==
    {[CRRA |-> 2, Rfree |-> 1000, DiscFac |-> 900, LivPrb |-> 1000,
      PermGroFac |-> 1000, aXtraGrid |-> g[1], ShareGrid |-> g[2],
      AdjustPrb |-> q, ShareLimit |-> 500, BoroCnstArt |-> b,
      vFuncBool |-> v, DiscreteShareBool |-> d, IndepDstnBool |-> i] :
        g \in Grids, q \in AdjustPrbs, b \in BoroCnstArts,
        v \in BOOLEAN, d \in BOOLEAN, i \in BOOLEAN}

\* the arguments of one call
Args(p, IncShkDstn, RiskyDstn) ==
    [ShockDstn |-> combine_indep_dstns(IncShkDstn, RiskyDstn),
     IncShkDstn |-> IncShkDstn, RiskyDstn |-> RiskyDstn,
     LivPrb |-> p.LivPrb, DiscFac |-> p.DiscFac, CRRA |-> p.CRRA,
     Rfree |-> p.Rfree, PermGroFac |-> p.PermGroFac,
     BoroCnstArt |-> p.BoroCnstArt, aXtraGrid |-> p.aXtraGrid,
     ShareGrid |-> p.ShareGrid, AdjustPrb |-> p.AdjustPrb,
     ShareLimit |-> p.ShareLimit, vFuncBool |-> p.vFuncBool,
     DiscreteShareBool |-> p.DiscreteShareBool,
     IndepDstnBool |-> p.IndepDstnBool]

\* the function objects whose value the model computes
Evaluable(f) ==
    \/ f.kind \in {"NullFunc", "IdentityFunction", "ConstantFunction", "LinearInterp",
                   "LinearInterpOnInterp1D", "BilinearInterp"}
    \/ /\ f.kind \in {"MargValueFuncCRRA"}
       /\ f.cFunc.kind \in {"IdentityFunction", "LinearInterp", "LinearInterpOnInterp1D"}
    \/ /\ f.kind \in {"ValueFuncCRRA"}
       /\ f.vFuncNvrs.kind \in {"IdentityFunction"}

\* the calls whose value functions of next period the model can evaluate
CanEvaluate(sn, a) ==
    a.vFuncBool => Evaluable(sn.vFuncAdj) /\ Evaluable(sn.vFuncFxd)

\* params: the agent's attributes; solution: the solved periods, earliest
\* first; last_call: the last call of the solver; sim: the simulation
\* attributes of the agent (t_cycle, state_now, shocks, controls)
VARIABLES params, solution, last_call, sim

vars == <<params, solution, last_call, sim>>

NoCall == [outcome |-> "none"]

\* the simulation attributes before initialize_sim
NoSim == [pc |-> "none"]

Init ==
    /\ params \in ParamSets
    /\ solution = <<solution_terminal(params.CRRA)>>
    /\ last_call = NoCall
    /\ sim = NoSim

\* PortfolioConsumerType.update_solution_terminal, at the start of a solve
update_solution_terminal ==
    /\ solution' = <<solution_terminal(params.CRRA)>>
    /\ last_call' = NoCall
    /\ UNCHANGED <<params, sim>>

\* one backward step: the solver is called on the earliest solution so far
\* (or on no solution at all), and what it returns is put before it
SolveOnePeriod ==
    /\ last_call.outcome \in {"none", "returned"}
    /\ Len(solution) <= MaxPeriods
    /\ \E pair \in ShockPairs, sn \in {solution[1], None} :
        \E a \in {Args(params, pair[1], pair[2])} :
            /\ sn # None => CanEvaluate(sn, a)
            /\ \E r \in {solve_one_period_ConsPortfolio(sn, a)} :
                /\ last_call' = [outcome |-> r.outcome, message |-> r.message,
                                 read |-> r.read, expectations |-> r.expectations,
                                 returned |-> r.solution,
                                 args |-> a, solution_next |-> sn,
                                 inputs_after |->
                                     IF r.outcome = "returned"
                                     THEN InputsAfter(sn, a, EndOfPrd(sn, a))
                                     ELSE Inputs(sn, a)]
                /\ solution' = IF r.outcome = "returned"
                               THEN <<r.solution>> \o solution ELSE solution
    /\ UNCHANGED <<params, sim>>

Next == SolveOnePeriod \/ update_solution_terminal

Spec == Init /\ [][Next]_vars

(***************************************************************************)
(* The constructor of PortfolioSolution called with only some of its       *)
(* function arguments: the others are left at their default, None.         *)
(***************************************************************************)
\* the nine function arguments of PortfolioSolution.__init__
FunctionFields ==
    {"cFuncAdj", "ShareFuncAdj", "vFuncAdj", "vPfuncAdj", "cFuncFxd",
     "ShareFuncFxd", "vFuncFxd", "dvdmFuncFxd", "dvdsFuncFxd"}

\* the keyword argument f of a call that passes the arguments `given`, taken
\* from the solution src: the value passed, or the default None
KeywordArg(given, src, f) == IF f \in given THEN src[f] ELSE None

\* PortfolioSolution(**kwds) with the function arguments `given` and no other
PortfolioSolution_given(given, src) ==
    PortfolioSolution(KeywordArg(given, src, "cFuncAdj"),
                      KeywordArg(given, src, "ShareFuncAdj"),
                      KeywordArg(given, src, "vFuncAdj"),
                      KeywordArg(given, src, "vPfuncAdj"),
                      KeywordArg(given, src, "cFuncFxd"),
                      KeywordArg(given, src, "ShareFuncFxd"),
                      KeywordArg(given, src, "vFuncFxd"),
                      KeywordArg(given, src, "dvdmFuncFxd"),
                      KeywordArg(given, src, "dvdsFuncFxd"),
                      None, None, None, None, None, None, None)

\* a PortfolioSolution is constructed from some of the functions of the
\* terminal solution; last_call records the construction
new_PortfolioSolution ==
    /\ last_call.outcome = "none"
    /\ \E given \in SUBSET FunctionFields :
           last_call' = [outcome |-> "constructed", message |-> "", read |-> {},
                         expectations |-> 0,
                         returned |-> PortfolioSolution_given(given, solution[1]),
                         args |-> [given |-> given], solution_next |-> None]
    /\ UNCHANGED <<params, solution, sim>>

NextSolution == SolveOnePeriod \/ update_solution_terminal \/ new_PortfolioSolution

SpecSolution == Init /\ [][NextSolution]_vars

(***************************************************************************)
(* The simulation of a solved agent: AgentCount agents, each at a period   *)
(* t_cycle of the cycle, with market resources mNrm, an Adjust shock and   *)
(* the controls cNrm and Share.  One simulated period runs sim_birth for   *)
(* the agents that died, get_shocks, get_states, get_controls, and then    *)
(* moves every agent to the next period of the cycle.                      *)
(***************************************************************************)
\* the number of simulated agents
AgentCount == 2

Agents == 1 .. AgentCount

\* the market resources an agent can have when its controls are computed
MNrmValues == {500, 2000}

\* the number of periods of the cycle: solution holds them and the terminal
\* solution
T_cycle == Len(solution) - 1

\* the agents whose attributes the model simulates have solved a cycle of two
\* periods in continuous mode
SimParamSets ==
    {p \in ParamSets : /\ p.BoroCnstArt = PyFloat(0)
                       /\ ~p.vFuncBool /\ ~p.DiscreteShareBool /\ ~p.IndepDstnBool
                       /\ p.aXtraGrid = <<250, 1000, 3000>>}

\* one backward step of solve(): the solution of a period with the shocks
\* ShkDstns, put before the solutions sols of the later periods
SolveBackward(p, ShkDstns, sols) ==
    <<solve_one_period_ConsPortfolio(
          sols[1], Args(p, ShkDstns[1], ShkDstns[2])).solution>> \o sols

\* solve(): backward induction from the terminal solution over the periods
\* of the cycle, cycle[t] the shocks of period t
RECURSIVE solve(_, _)
solve(p, cycle) ==
    IF cycle = <<>> THEN <<solution_terminal(p.CRRA)>>
    ELSE SolveBackward(p, Head(cycle), solve(p, Tail(cycle)))

\* the solved cycle of two periods
SolvedCycle(p) ==
    solve(p, <<(<<IncShkDstn_a, RiskyDstn_b>>), (<<IncShkDstn_a, RiskyDstn_d>>)>>)

\* sim_birth resetting the share of every agent, born or not
sim_birth_on_EveryShare(s, which_agents) ==
    [s EXCEPT
        !.which_agents = which_agents,
        !.t_cycle = np_array([i \in Agents |->
                        IF i \in which_agents THEN 0 ELSE s.t_cycle[i]]),
        !.Share = np_array([i \in Agents |-> 0]),
        !.Adjust = np_array([i \in Agents |->
                        IF i \in which_agents THEN FALSE ELSE s.Adjust[i]])]

\* sim_birth(which_agents) on the simulation attributes s: the newborn start
\* the cycle, hold no risky share and have Adjust = False
sim_birth_on(s, which_agents) ==
    [s EXCEPT
        !.which_agents = which_agents,
        !.t_cycle = np_array([i \in Agents |->
                        IF i \in which_agents THEN 0 ELSE s.t_cycle[i]]),
        !.Share = np_array([i \in Agents |->
                        IF i \in which_agents THEN 0 ELSE s.Share[i]]),
        !.Adjust = np_array([i \in Agents |->
                        IF i \in which_agents THEN FALSE ELSE s.Adjust[i]])]

\* initialize_sim: controls["Share"] is zeros(AgentCount), then every agent
\* is born
initialize_sim ==
    /\ sim.pc = "none"
    /\ sim' = [sim_birth_on(
                  [pc |-> "none",
                   t_cycle |-> np_array([i \in Agents |-> 0]),
                   mNrm |-> np_array([i \in Agents |-> NaN]),
                   Adjust |-> np_array([i \in Agents |-> FALSE]),
                   cNrm |-> np_array([i \in Agents |-> NaN]),
                   Share |-> np_array([i \in Agents |-> 0]),
                   calls |-> {}, which_agents |-> {}],
                  Agents) EXCEPT !.pc = "shocks"]
    /\ UNCHANGED <<params, solution, last_call>>

\* get_mortality picks the agents that died, sim_birth replaces them
sim_birth ==
    /\ sim.pc = "birth"
    /\ \E which_agents \in SUBSET Agents :
           sim' = [sim_birth_on(sim, which_agents) EXCEPT !.pc = "shocks"]
    /\ UNCHANGED <<params, solution, last_call>>

\* get_shocks: each agent's Adjust is a Bernoulli draw with probability
\* AdjustPrb
get_shocks ==
    /\ sim.pc = "shocks"
    /\ \E Adjust \in [Agents -> BOOLEAN] :
           /\ params.AdjustPrb = One => \A i \in Agents : Adjust[i]
           /\ params.AdjustPrb = 0 => \A i \in Agents : ~Adjust[i]
           /\ sim' = [sim EXCEPT !.Adjust = np_array(Adjust), !.pc = "states"]
    /\ UNCHANGED <<params, solution, last_call>>

\* get_states: the market resources of this period
get_states ==
    /\ sim.pc = "states"
    /\ \E mNrm \in [Agents -> MNrmValues] :
           sim' = [sim EXCEPT !.mNrm = np_array(mNrm), !.pc = "controls"]
    /\ UNCHANGED <<params, solution, last_call>>

\* the agents among `these` that can (adjusting) or cannot adjust
ThoseOf(s, t, adjusting) ==
    {i \in Agents : t = s.t_cycle[i] /\ (s.Adjust[i] <=> adjusting)}

\* the loop of get_controls from period t of the cycle on: cNrmNow and
\* ShareNow are the local arrays, calls the function calls made so far, each
\* with the period, the function and the number of agents it is called on
RECURSIVE get_controls_loop(_, _, _, _, _, _)
get_controls_loop(sols, s, t, cNrmNow, ShareNow, calls) ==
    IF t >= Len(sols) - 1
    THEN [cNrm |-> cNrmNow, Share |-> ShareNow, calls |-> calls]
    ELSE LET adj == ThoseOf(s, t, TRUE)
             cNrm_a == np_array([i \in Agents |->
                 IF i \in adj THEN Call1(sols[t + 1].cFuncAdj, s.mNrm[i])
                 ELSE cNrmNow[i]])
             Share_a == np_array([i \in Agents |->
                 IF i \in adj THEN Call1(sols[t + 1].ShareFuncAdj, s.mNrm[i])
                 ELSE ShareNow[i]])
             fxd == ThoseOf(s, t, FALSE)
             cNrm_f == np_array([i \in Agents |->
                 IF i \in fxd
                 THEN Call2(sols[t + 1].cFuncFxd, s.mNrm[i], Share_a[i])
                 ELSE cNrm_a[i]])
             Share_f == np_array([i \in Agents |->
                 IF i \in fxd
                 THEN Call2(sols[t + 1].ShareFuncFxd, s.mNrm[i], Share_a[i])
                 ELSE Share_a[i]])
         IN  get_controls_loop(sols, s, t + 1, cNrm_f, Share_f,
                 calls \cup {<<t, "cFuncAdj", Cardinality(adj)>>,
                             <<t, "ShareFuncAdj", Cardinality(adj)>>,
                             <<t, "cFuncFxd", Cardinality(fxd)>>,
                             <<t, "ShareFuncFxd", Cardinality(fxd)>>})

\* get_controls: the local arrays start as NaN, the loop fills them, and they
\* are stored as the controls
get_controls ==
    /\ sim.pc = "controls"
    /\ \E r \in {get_controls_loop(solution, sim, 0,
                     np_array([i \in Agents |-> NaN]),
                     np_array([i \in Agents |-> NaN]), {})} :
           sim' = [sim EXCEPT !.cNrm = r.cNrm, !.Share = r.Share,
                              !.calls = r.calls, !.pc = "advance"]
    /\ UNCHANGED <<params, solution, last_call>>

\* the end of the simulated period: every agent moves on in the cycle
advance ==
    /\ sim.pc = "advance"
    /\ sim' = [sim EXCEPT
                  !.t_cycle = np_array([i \in Agents |-> (sim.t_cycle[i] + 1) % T_cycle]),
                  !.pc = "birth"]
    /\ UNCHANGED <<params, solution, last_call>>

InitSim ==
    /\ params \in SimParamSets
    /\ solution = SolvedCycle(params)
    /\ last_call = NoCall
    /\ sim = NoSim

NextSim ==
    \/ initialize_sim
    \/ sim_birth
    \/ get_shocks
    \/ get_states
    \/ get_controls
    \/ advance

SpecSim == InitSim /\ [][NextSim]_vars

(***************************************************************************)
(* Properties of the solver and of the terminal solution                   *)
(***************************************************************************)
\* the market resources at which policy functions are sampled
MGrid == {0, 100, 500, 1000, 1350, 2000, 5000, 20000}

\* the solver has been called and the call has ended
Called == last_call.outcome # "none"

\* C1: for every BoroCnstArt that is not 0.0, None included, and whatever the
\* other arguments are (solution_next may even be no solution at all), the
\* call ends in the ValueError of the first check, having read no argument
\* but BoroCnstArt and taken no expectation, and returns no solution.
C1_BoroCnstArtNonZeroRaises ==
    (Called /\ last_call.args.BoroCnstArt # PyFloat(0)) =>
        /\ last_call.outcome = "ValueError"
        /\ last_call.message = "PortfolioConsumerType must have BoroCnstArt=0.0!"
        /\ last_call.read = {"BoroCnstArt"}
        /\ last_call.expectations = 0
        /\ last_call.returned = None

\* a call with BoroCnstArt = None, flags that the second check would refuse,
\* and no solution_next has ended in the first check's error
C1_Witness ==
    /\ Called
    /\ last_call.args.BoroCnstArt = PyNone
    /\ last_call.args.DiscreteShareBool /\ ~last_call.args.vFuncBool
    /\ last_call.solution_next = None
    /\ last_call.outcome = "ValueError"
    /\ last_call.read = {"BoroCnstArt"}

\* C2: with BoroCnstArt = 0 the call raises a ValueError exactly when
\* DiscreteShareBool is true and vFuncBool is false; it then has taken no
\* expectation and returns no solution; with the other three combinations
\* of the two flags no ValueError is raised.
C2_DiscreteNeedsValueFunction ==
    (Called /\ last_call.args.BoroCnstArt = PyFloat(0)) =>
        /\ (last_call.outcome = "ValueError") <=>
               (last_call.args.DiscreteShareBool /\ ~last_call.args.vFuncBool)
        /\ (last_call.outcome = "ValueError") =>
               /\ last_call.expectations = 0
               /\ last_call.returned = None
               /\ last_call.message =
                      "PortfolioConsumerType requires vFuncBool to be True when DiscreteShareBool is True!"

\* a call with BoroCnstArt = 0 and the refused combination has raised
C2_Witness ==
    /\ Called
    /\ last_call.args.BoroCnstArt = PyFloat(0)
    /\ last_call.args.DiscreteShareBool /\ ~last_call.args.vFuncBool
    /\ last_call.outcome = "ValueError"
    /\ last_call.expectations = 0

\* the terminal solution: the last element of the agent's solution
TerminalOf(sols) == sols[Len(sols)]

\* C4: the terminal solution has cFuncAdj(m) = m for every m >= 0 and
\* ShareFuncAdj(m) = 0 for every m, and carries hNrm = 0 and MPCmin = 1.
C4_TerminalSolution ==
    LET T == TerminalOf(solution)
    IN  /\ \A m \in MGrid : Call1(T.cFuncAdj, m) = m
        /\ \A m \in MGrid \cup {-1000} : Call1(T.ShareFuncAdj, m) = 0
        /\ T.hNrm = 0
        /\ T.MPCmin = One

\* the terminal solution has seeded the recursion: the solver was called on
\* it and returned the solution of the period before
C4_Witness ==
    /\ last_call.outcome = "returned"
    /\ Len(solution) = 2
    /\ last_call.solution_next = TerminalOf(solution)
    /\ last_call.solution_next.MPCmin = One
    /\ last_call.solution_next.hNrm = 0

\* solution_next with placeholders in its three fixed-regime fields that the
\* solver unpacks
WithFxdPlaceholders(sn) ==
    [sn EXCEPT !.dvdmFuncFxd = NullFunc, !.dvdsFuncFxd = NullFunc,
               !.vFuncFxd = NullFunc]

\* C10: with AdjustPrb = 1.0 the solver evaluates none of
\* solution_next.dvdmFuncFxd, dvdsFuncFxd, vFuncFxd, on either path and with
\* or without value functions: the call on a solution_next whose three
\* fields are placeholders returns, and returns the very same solution.
C10_FxdOfNextNeverEvaluated ==
    (last_call.outcome = "returned" /\ last_call.args.AdjustPrb = One) =>
        LET r == solve_one_period_ConsPortfolio(
                     WithFxdPlaceholders(last_call.solution_next), last_call.args)
        IN  /\ r.outcome = "returned"
            /\ r.solution = last_call.returned

\* a call with AdjustPrb = 1.0 has returned, on a solution_next that is a
\* solved period whose fixed-regime functions differ from the placeholders
C10_Witness ==
    /\ last_call.outcome = "returned"
    /\ last_call.args.AdjustPrb = One
    /\ Len(solution) = 3
    /\ last_call.solution_next.dvdmFuncFxd.kind = "MargValueFuncCRRA"
    /\ last_call.solution_next.dvdsFuncFxd.kind = "LinearInterpOnInterp1D"

\* x is a number of the interval [0, 1]
InUnitInterval(x) == FLe(0, x) /\ FLe(x, One)

\* C3: in every solution reached by backward steps from the terminal
\* solution, ShareFuncAdj(m) lies in [0,1] for every m >= 0 and every entry
\* of the stored Share_adj array lies in [0,1].
C3_ShareInUnitInterval ==
    last_call.outcome = "returned" =>
        LET sol == last_call.returned
        IN  /\ \A m \in MGrid : InUnitInterval(Call1(sol.ShareFuncAdj, m))
            /\ \A i \in 1 .. Len(sol.Share_adj) : InUnitInterval(sol.Share_adj[i])

\* the gridpoints of a piecewise-linear function are all numbers
NumbersOnly(f) ==
    \A i \in 1 .. Len(f.x_list) : IsFinite(f.x_list[i]) /\ IsFinite(f.y_list[i])

\* C5: in every returned solution cFuncAdj(m) <= m for every m >= 0, between
\* the endogenous gridpoints and above the highest of them.  (Stated for the
\* solutions whose gridpoints are numbers; a gridpoint that is NaN, which is
\* C3's case, fails the comparison as well.)
C5_ConsumptionAtMostResources ==
    (last_call.outcome = "returned" /\ NumbersOnly(last_call.returned.cFuncAdj)) =>
        \A m \in MGrid : FLe(Call1(last_call.returned.cFuncAdj, m), m)

\* C6: in every returned solution cFuncAdj is non-decreasing in market
\* resources, and the endogenous gridpoints handed to the interpolant are in
\* increasing order.  (Stated for the solutions whose gridpoints are
\* numbers, as C5 is.)
C6_ConsumptionNonDecreasing ==
    (last_call.outcome = "returned" /\ NumbersOnly(last_call.returned.cFuncAdj)) =>
        LET cFuncAdj == last_call.returned.cFuncAdj
        IN  /\ \A m1, m2 \in MGrid :
                   m1 <= m2 => FLe(Call1(cFuncAdj, m1), Call1(cFuncAdj, m2))
            /\ \A i \in 1 .. Len(cFuncAdj.x_list) - 1 :
                   FLe(cFuncAdj.x_list[i], cFuncAdj.x_list[i + 1])

(***************************************************************************)
(* Properties of the simulation                                            *)
(***************************************************************************)
\* C8: over every step of get_controls, each agent whose Adjust shock is
\* False ends the call with the Share it held before the call, and with the
\* consumption cFuncFxd gives at its mNrm and that held share.
C8_FixedAgentsKeepShare ==
    [][(sim.pc = "controls" /\ sim'.pc = "advance") =>
          \A i \in Agents :
              ~sim.Adjust[i] =>
                  /\ sim'.Share[i] = sim.Share[i]
                  /\ sim'.cNrm[i] =
                         Call2(solution[sim.t_cycle[i] + 1].cFuncFxd,
                               sim.mNrm[i], sim.Share[i])]_vars

\* C9: with AdjustPrb = 1.0, once get_controls has run it has made no call
\* of cFuncFxd or ShareFuncFxd, of any period's solution.
C9_FxdNeverCalledWhenAlwaysAdjusting ==
    (sim.pc = "advance" /\ params.AdjustPrb = One) =>
        \A call \in sim.calls : call[2] \notin {"cFuncFxd", "ShareFuncFxd"}

(***************************************************************************)
(* Properties of the solution record                                       *)
(***************************************************************************)
\* f is a function object that was constructed: neither None nor a NullFunc
ConstructedFunction(f) == f # None /\ f.kind \notin {"None", "NullFunc"}

\* C11: a PortfolioSolution holds None in no function field: each function
\* argument left unset in the constructor is a NullFunc in the object and each
\* one given is kept; and a solution returned by the solver with vFuncBool
\* False has a NullFunc in vFuncAdj and in vFuncFxd and a constructed function
\* in each of its other seven function fields.
C11_NoNoneInFunctionFields ==
    /\ \A k \in 1 .. Len(solution) : \A f \in FunctionFields : solution[k][f] # None
    /\ last_call.outcome = "constructed" =>
           \A f \in FunctionFields :
               /\ last_call.returned[f] # None
               /\ f \notin last_call.args.given => last_call.returned[f] = NullFunc
               /\ f \in last_call.args.given => last_call.returned[f] = solution[1][f]
    /\ (last_call.outcome = "returned" /\ ~last_call.args.vFuncBool) =>
           /\ last_call.returned.vFuncAdj = NullFunc
           /\ last_call.returned.vFuncFxd = NullFunc
           /\ \A f \in FunctionFields \ {"vFuncAdj", "vFuncFxd"} :
                  ConstructedFunction(last_call.returned[f])

\* a PortfolioSolution has been constructed with some function arguments
\* given and the others, the two value functions among them, left unset
C11_Witness ==
    /\ last_call.outcome = "constructed"
    /\ last_call.args.given = {"cFuncAdj", "ShareFuncAdj", "vPfuncAdj"}
    /\ last_call.returned.vFuncAdj = NullFunc
    /\ last_call.returned.cFuncAdj = IdentityFunction(0, 1)

\* C12: when IndepDstnBool is False the returned solution does not depend on
\* the marginal distributions: the call with the same solution_next, the same
\* joint ShockDstn and every other argument the same, but with another
\* IncShkDstn and RiskyDstn, returns the same solution.
C12_JointPathIgnoresMarginals ==
    (last_call.outcome = "returned" /\ ~last_call.args.IndepDstnBool) =>
        \A pair \in ShockPairs :
            solve_one_period_ConsPortfolio(
                last_call.solution_next,
                [last_call.args EXCEPT !.IncShkDstn = pair[1],
                                       !.RiskyDstn = pair[2]]).solution
                = last_call.returned

\* C13: the solver modifies none of its inputs: after any call, returned or
\* raised, solution_next, aXtraGrid, ShareGrid and the three distributions
\* hold the values they held before the call.
C13_InputsUnmodified ==
    last_call.outcome \in {"returned", "ValueError", "AttributeError"} =>
        last_call.inputs_after = Inputs(last_call.solution_next, last_call.args)

\* a call in discrete mode has returned in which the in-place assignment
\* ShareAdj_now[0] = 1.0 was made, on the array taken from ShareGrid by the
\* index array opt_idx, while ShareGrid[0] is 0 after the call as before
C13_Witness ==
    /\ last_call.outcome = "returned"
    /\ last_call.args.DiscreteShareBool
    /\ ~BoroCnstNat_iszero(last_call.args)
    /\ last_call.returned.Share_adj[1] = One
    /\ last_call.args.ShareGrid[1] = 0
    /\ last_call.inputs_after.ShareGrid[1] = 0

\* C14: in every returned solution Share_adj and EndOfPrddvda_adj each hold
\* exactly one entry per point of the stored aGrid: they have the length of
\* aGrid, and entry i is the adjuster's share at aGrid[i], respectively the
\* marginal utility of the adjuster's consumption at aGrid[i].
C14_OneEntryPerAssetGridpoint ==
    last_call.outcome = "returned" =>
        LET sol == last_call.returned
            a == last_call.args
            E == EndOfPrd(last_call.solution_next, a)
        IN  /\ Len(sol.Share_adj) = Len(sol.aGrid)
            /\ Len(sol.EndOfPrddvda_adj) = Len(sol.aGrid)
            /\ \A i \in 1 .. Len(sol.aGrid) :
                   /\ sol.Share_adj[i] = ShareAdj_now(a, E)[i]
                   /\ sol.EndOfPrddvda_adj[i] = uFunc_der(cNrmAdj_now(a, E)[i], a.CRRA)

\* C15: the EndOfPrddvda_fxd array of the returned solution is, at every
\* (aGrid point, ShareGrid point), the end-of-period marginal value of
\* assets EndOfPrd_dvda computed in the call, and EndOfPrddvds_fxd is
\* EndOfPrd_dvds.
C15_StoredMarginalValues ==
    last_call.outcome = "returned" =>
        LET E == EndOfPrd(last_call.solution_next, last_call.args)
        IN  /\ last_call.returned.EndOfPrddvda_fxd = E.EndOfPrd_dvda
            /\ last_call.returned.EndOfPrddvds_fxd = E.EndOfPrd_dvds

(***************************************************************************)
(* Properties of the simulation, continued                                 *)
(***************************************************************************)
\* C16: over every step of sim_birth(which_agents), the agents flagged in
\* which_agents end with Share = 0 and Adjust = False, and every other agent
\* keeps its Share and its Adjust.
C16_BirthResetsOnlyTheBorn ==
    [][(sim.pc = "birth" /\ sim'.pc = "shocks") =>
          \A i \in Agents :
              IF i \in sim'.which_agents
              THEN sim'.Share[i] = 0 /\ sim'.Adjust[i] = FALSE
              ELSE sim'.Share[i] = sim.Share[i] /\ sim'.Adjust[i] = sim.Adjust[i]]_vars

\* sim_birth has replaced agent 1 alone: it holds no risky share and cannot
\* adjust, while agent 2 still has the share it chose and its Adjust shock
C16_Witness ==
    /\ sim.pc = "shocks"
    /\ sim.which_agents = {1}
    /\ sim.Share[1] = 0 /\ sim.Adjust[1] = FALSE
    /\ sim.Share[2] # 0 /\ sim.Adjust[2] = TRUE

(***************************************************************************)
(* Properties of the continuous share                                      *)
(***************************************************************************)
\* the rows of FOC_s of the last call, when it returned in continuous mode
FOC_s_rows ==
    IF last_call.outcome = "returned" /\ ~last_call.args.DiscreteShareBool
    THEN LET FOC_s == EndOfPrd(last_call.solution_next, last_call.args).EndOfPrd_dvds
         IN  {FOC_s[i] : i \in 1 .. Len(FOC_s)}
    ELSE {}

\* C18: in continuous mode, for every asset gridpoint whose row of FOC_s
\* has first entry >= 0 and last entry <= 0, share_idx is the index of a
\* segment of the share grid (share_idx + 1 is an index of the grid too),
\* FOC_s[share_idx] >= 0 and FOC_s[share_idx + 1] <= 0, and no segment
\* with a lower index has such a sign flip.
C18_ShareIdxBracketsSignFlip ==
    \A FOC_row \in FOC_s_rows :
        (FGe(FOC_row[1], 0) /\ FLe(FOC_row[Len(FOC_row)], 0)) =>
            LET k == share_idx(FOC_row)
            IN  /\ k \in 1 .. Len(FOC_row) - 1
                /\ FGe(FOC_row[k], 0) /\ FLe(FOC_row[k + 1], 0)
                /\ \A j \in 1 .. k - 1 : ~(FGe(FOC_row[j], 0) /\ FLe(FOC_row[j + 1], 0))

\* a call in continuous mode has returned with a row of FOC_s that starts
\* positive, ends negative and flips on a segment other than the first
C18_Witness ==
    \E FOC_row \in FOC_s_rows :
        /\ FGt(FOC_row[1], 0) /\ FLt(FOC_row[Len(FOC_row)], 0)
        /\ share_idx(FOC_row) > 1

\* the last call got past the checks of the solver in continuous mode
ReachedContinuousShare ==
    /\ last_call.outcome \notin {"none", "constructed"}
    /\ last_call.solution_next # None
    /\ ~BoroCnstArtCheck(last_call.args)
    /\ ~DiscreteShareCheck(last_call.args)
    /\ ~last_call.args.DiscreteShareBool

C20_ZeroAssetGridpoint ==
    last_call.outcome = "returned" =>
        LET a == last_call.args
            sol == last_call.returned
            E == EndOfPrd(last_call.solution_next, a)
            cN == EndOfPrd_dvdaNvrs(a, E)
            TranShk == {a.IncShkDstn[k].TranShk : k \in 1 .. Len(a.IncShkDstn)}
            smallest == CHOOSE t \in TranShk : \A u \in TranShk : t <= u
            added == smallest # 0
            \* Share_adj has Share_lower_bound before it in continuous mode
            ShareAt(i) == sol.Share_adj[IF a.DiscreteShareBool THEN i ELSE i + 1]
            cNrmAt(i) == sol.cFuncAdj.y_list[i + 1]
            optimised(i) ==
                IF a.DiscreteShareBool
                THEN <<ShareAdj_discrete(a, E, i), cNrmAdj_discrete(a, E, cN, i)>>
                ELSE <<ShareAdj_continuous(a, E, i), cNrmAdj_continuous(a, E, cN, i)>>
        IN  /\ sol.aGrid = IF added THEN <<0>> \o a.aXtraGrid ELSE a.aXtraGrid
            /\ added => ShareAt(1) = One /\ cNrmAt(1) = cN[1][Len(a.ShareGrid)]
            /\ \A i \in 1 .. Len(sol.aGrid) :
                   (~added \/ i > 1) => <<ShareAt(i), cNrmAt(i)>> = optimised(i)

\* a call in continuous mode has returned for an income distribution whose
\* smallest transitory shock is not 0: the grid starts with the added 0,
\* the first-order condition is negative along the whole share grid there
\* (the optimisation's share is 0), and the returned share there is 1
C20_Witness ==
    /\ last_call.outcome = "returned"
    /\ ~last_call.args.DiscreteShareBool
    /\ \A k \in 1 .. Len(last_call.args.IncShkDstn) :
           last_call.args.IncShkDstn[k].TranShk > 0
    /\ last_call.returned.aGrid[1] = 0
    /\ \A j \in 1 .. Len(last_call.args.ShareGrid) :
           FLt(last_call.returned.EndOfPrddvds_fxd[1][j], 0)
    /\ last_call.returned.Share_adj[2] = One

(***************************************************************************)
(* Properties of the discrete share                                        *)
(***************************************************************************)
\* C21: in discrete mode, at each asset gridpoint i other than the
\* zero-asset gridpoint fixed at lines 815-817, the share of the returned
\* solution is ShareGrid[j] and the consumption is EndOfPrd_dvdaNvrs[i, j],
\* for the lowest index j at which EndOfPrd_v[i, :] is greatest.
C21_DiscreteShareMaximisesValue ==
    (last_call.outcome = "returned" /\ last_call.args.DiscreteShareBool) =>
        LET a == last_call.args
            sol == last_call.returned
            E == EndOfPrd(last_call.solution_next, a)
            cN == EndOfPrd_dvdaNvrs(a, E)
            Greatest(row) == {j \in 1 .. Len(row) : \A k \in 1 .. Len(row) : FGe(row[j], row[k])}
        IN  \A i \in 1 .. Len(sol.aGrid) :
                (BoroCnstNat_iszero(a) \/ i > 1) =>
                    /\ Greatest(E.EndOfPrd_v[i]) # {}
                    /\ LET j == CHOOSE j \in Greatest(E.EndOfPrd_v[i]) :
                                    \A k \in Greatest(E.EndOfPrd_v[i]) : j <= k
                       IN  /\ sol.Share_adj[i] = a.ShareGrid[j]
                           /\ sol.cFuncAdj.y_list[i + 1] = cN[i][j]

\* a call in discrete mode has returned in which, at some asset gridpoint,
\* the value is greatest at a share gridpoint other than the first, and the
\* solution stores that share
C21_Witness ==
    /\ last_call.outcome = "returned"
    /\ last_call.args.DiscreteShareBool
    /\ LET a == last_call.args
           E == EndOfPrd(last_call.solution_next, a)
       IN  \E i \in 2 .. Len(last_call.returned.aGrid) :
               /\ opt_idx(E, i) > 1
               /\ FGt(E.EndOfPrd_v[i][opt_idx(E, i)], E.EndOfPrd_v[i][1])
               /\ last_call.returned.Share_adj[i] = a.ShareGrid[opt_idx(E, i)]

(***************************************************************************)
(* Properties of the functions of the solution                             *)
(***************************************************************************)
\* C22: the cFuncAdj of a returned solution is extrapolated above its
\* highest gridpoint towards the limiting linear function of the call: its
\* slope_limit is cFuncLimitSlope = MPCminNow and its intercept_limit is
\* cFuncLimitIntercept = MPCminNow * hNrmNow.
C22_cFuncAdjHasLimit ==
    last_call.outcome = "returned" =>
        LET f == last_call.returned.cFuncAdj
        IN  /\ f.decay_extrap
            /\ f.slope_limit = cFuncLimitSlope(last_call.solution_next, last_call.args)
            /\ f.intercept_limit = cFuncLimitIntercept(last_call.solution_next, last_call.args)

C24_AlphaInUnitInterval ==
    ReachedContinuousShare =>
        LET a == last_call.args
            E == EndOfPrd(last_call.solution_next, a)
            cN == EndOfPrd_dvdaNvrs(a, E)
            Between(x, lo, hi) == (FLe(lo, x) /\ FLe(x, hi)) \/ (FLe(hi, x) /\ FLe(x, lo))
        IN  \A i \in 1 .. Len(E.EndOfPrd_dvds) :
                LET FOC_row == E.EndOfPrd_dvds[i]
                    k == share_idx(FOC_row)
                IN  (FGe(FOC_row[k], 0) /\ FLe(FOC_row[k + 1], 0)) =>
                        /\ FGe(alpha(FOC_row), 0) /\ FLe(alpha(FOC_row), One)
                        /\ Between(Lerp(alpha(FOC_row), a.ShareGrid[k], a.ShareGrid[k + 1]),
                                   a.ShareGrid[k], a.ShareGrid[k + 1])
                        /\ Between(Lerp(alpha(FOC_row), cN[i][k], cN[i][k + 1]),
                                   cN[i][k], cN[i][k + 1])

(***************************************************************************)
(* The constraints on the share (lines 799-809) applied to one row of      *)
(* FOC_s at a time: the rows are drawn from a small set of numbers, so     *)
(* that every combination of signs of the first, the interior and the last *)
(* entry occurs, also those no solved period of the model produces.        *)
(***************************************************************************)
FOCValues == {-300, -100, 0, 200, 400}
ConstraintRows == {<<x, y, z>> : x \in FOCValues, y \in FOCValues, z \in FOCValues}
\* rows of EndOfPrd_dvdaNvrs to go with them
ConstraintConsumption == {<<900, 1100, 1300>>, <<1300, 1200, 800>>}

\* lines 776-809 at one asset gridpoint with the row FOC_row of FOC_s and
\* the row cNrm_row of EndOfPrd_dvdaNvrs, over the share grid of params
ContinuousShareOfRow ==
    /\ last_call.outcome = "none"
    /\ Len(params.ShareGrid) = 3
    /\ \E FOC_row \in ConstraintRows, cNrm_row \in ConstraintConsumption :
           last_call' =
               [outcome |-> "share", FOC_row |-> FOC_row, cNrm_row |-> cNrm_row,
                ShareAdj_now |-> ShareAdj_continuous(params, [EndOfPrd_dvds |-> <<FOC_row>>], 1),
                cNrmAdj_now |-> cNrmAdj_continuous(params, [EndOfPrd_dvds |-> <<FOC_row>>],
                                                   <<cNrm_row>>, 1)]
    /\ UNCHANGED <<params, solution, sim>>

SpecConstraints == Init /\ [][ContinuousShareOfRow]_vars

C26_MPCminRecursion ==
    LET a == last_call.args
        sn == last_call.solution_next
        sol == last_call.returned
        Rport(R) == FAdd(FMul(a.ShareLimit, R), FMul(FSub(One, a.ShareLimit), a.Rfree))
    IN  (/\ last_call.outcome = "returned"
         /\ FGt(FMul(a.DiscFac, a.LivPrb), 0)
         /\ \A k \in 1 .. Len(a.RiskyDstn) : FGt(Rport(a.RiskyDstn[k].Risky), 0)) =>
            /\ FNe(sn.MPCmin, 0)
            /\ sol.MPCmin = FDiv(One, FAdd(One, FDiv(PatFac(a), sn.MPCmin)))
            /\ FGt(sol.MPCmin, 0) /\ FLt(sol.MPCmin, One)
            /\ sol.AdjPrb = a.AdjustPrb

\* a second backward step has returned: solution_next is itself a solved
\* period with MPCmin below 1, and the new MPCmin is lower still
C26_Witness ==
    /\ last_call.outcome = "returned"
    /\ FLt(last_call.solution_next.MPCmin, One)
    /\ FGt(last_call.returned.MPCmin, 0)
    /\ FLt(last_call.returned.MPCmin, last_call.solution_next.MPCmin)
    /\ last_call.returned.AdjPrb = 500

=============================================================================
